---- MODULE Spec2Model ----
(***************************************************************************)
(* Titan Chess (src/app.py): a Streamlit session controller around a       *)
(* python-chess Board and a Stockfish engine.  One script run of main()    *)
(* per user action; st.session_state is the session's state.               *)
(*                                                                         *)
(* Text (move strings, square names) is a sequence of one-character        *)
(* strings, so that formatting and parsing are computed, not assumed.      *)
(***************************************************************************)
EXTENDS Integers, Sequences, FiniteSets, TLC

(***************************************************************************)
(* Bounds of the model.                                                    *)
(***************************************************************************)
\* Longest game (plies on the board's move stack) the model explores.
MaxPlies == 4
\* Most script runs that st.rerun() chains after one user action.
MaxReruns == 3
\* Longest game explored while the engine's configuration is changed.
MaxConfigPlies == 1
\* Longest game explored with an engine that answers anything.
MaxUncheckedPlies == 2
\* Longest log of which every filling is given to the history display.
MaxHistoryPlies == 4
\* Longest game of a session that shares the engine with another one.
MaxSharedPlies == 1

(***************************************************************************)
(* python-chess: colours, squares, names  (import chess, src/app.py:2)     *)
(***************************************************************************)
WHITE == TRUE
BLACK == FALSE

Squares == 0..63

square_file(sq) == sq % 8
square_rank(sq) == sq \div 8
square(f, r) == r * 8 + f

FILE_NAMES == <<"a", "b", "c", "d", "e", "f", "g", "h">>
RANK_NAMES == <<"1", "2", "3", "4", "5", "6", "7", "8">>

IndexOf(seq, c) == CHOOSE i \in 1..Len(seq) : seq[i] = c
IsFileChar(c) == \E i \in 1..Len(FILE_NAMES) : FILE_NAMES[i] = c
IsRankChar(c) == \E i \in 1..Len(RANK_NAMES) : RANK_NAMES[i] = c

\* chess.square_name / chess.SQUARE_NAMES
square_name(sq) == <<FILE_NAMES[square_file(sq) + 1], RANK_NAMES[square_rank(sq) + 1]>>

IsSquareName(t) == Len(t) = 2 /\ IsFileChar(t[1]) /\ IsRankChar(t[2])

\* chess.parse_square(name), for a valid name
parse_square(t) == square(IndexOf(FILE_NAMES, t[1]) - 1, IndexOf(RANK_NAMES, t[2]) - 1)

(***************************************************************************)
(* python-chess: pieces and moves                                          *)
(***************************************************************************)
NoPiece == "."
WhiteSymbols == {"P", "N", "B", "R", "Q", "K"}
BlackSymbols == {"p", "n", "b", "r", "q", "k"}

piece_color(p) == p \in WhiteSymbols

\* the lower-case piece symbol (chess.PIECE_SYMBOLS)
piece_type(p) ==
    CASE p \in {"P", "p"} -> "p"
      [] p \in {"N", "n"} -> "n"
      [] p \in {"B", "b"} -> "b"
      [] p \in {"R", "r"} -> "r"
      [] p \in {"Q", "q"} -> "q"
      [] p \in {"K", "k"} -> "k"

symbol(type, color) ==
    IF color = WHITE
    THEN CASE type = "p" -> "P" [] type = "n" -> "N" [] type = "b" -> "B"
           [] type = "r" -> "R" [] type = "q" -> "Q" [] type = "k" -> "K"
    ELSE type

NoSquare == -1

\* chess.Move: from_square, to_square, promotion ("" when none)
Move(from, to, promo) == [from_square |-> from, to_square |-> to, promotion |-> promo]
NoMove == Move(NoSquare, NoSquare, "")
PromotionSymbols == {"q", "r", "b", "n"}

\* str(move) / move.uci()
uci(m) ==
    square_name(m.from_square) \o square_name(m.to_square)
        \o (IF m.promotion = "" THEN <<>> ELSE <<m.promotion>>)

(***************************************************************************)
(* python-chess: the board                                                 *)
(***************************************************************************)
BACK_RANK == <<"r", "n", "b", "q", "k", "b", "n", "r">>

StartPieces ==
    [sq \in Squares |->
        CASE square_rank(sq) = 0 -> symbol(BACK_RANK[square_file(sq) + 1], WHITE)
          [] square_rank(sq) = 1 -> "P"
          [] square_rank(sq) = 6 -> "p"
          [] square_rank(sq) = 7 -> BACK_RANK[square_file(sq) + 1]
          [] OTHER -> NoPiece]

\* chess.Board(): the starting position, White to move, empty move stack
NewBoard ==
    [pieces |-> StartPieces, turn |-> WHITE, ep_square |-> NoSquare, move_stack |-> <<>>]

\* board.piece_at(sq)
piece_at(b, sq) == b.pieces[sq]

Abs(x) == IF x < 0 THEN -x ELSE x
Sgn(x) == IF x < 0 THEN -1 ELSE IF x > 0 THEN 1 ELSE 0
Max(x, y) == IF x > y THEN x ELSE y

\* the squares strictly between s and t on a rank, file or diagonal are empty
ClearPath(pieces, s, t) ==
    LET df == square_file(t) - square_file(s)
        dr == square_rank(t) - square_rank(s)
        n  == Max(Abs(df), Abs(dr))
    IN \A i \in 1..(n - 1) :
          pieces[square(square_file(s) + i * Sgn(df), square_rank(s) + i * Sgn(dr))] = NoPiece

\* the piece on s attacks t (board.attacks)
Attacks(pieces, s, t) ==
    LET p  == pieces[s]
        df == square_file(t) - square_file(s)
        dr == square_rank(t) - square_rank(s)
    IN /\ p # NoPiece
       /\ s # t
       /\ CASE piece_type(p) = "p" ->
                 Abs(df) = 1 /\ dr = (IF piece_color(p) = WHITE THEN 1 ELSE -1)
            [] piece_type(p) = "n" ->
                 {Abs(df), Abs(dr)} = {1, 2}
            [] piece_type(p) = "k" ->
                 Max(Abs(df), Abs(dr)) = 1
            [] piece_type(p) = "b" ->
                 Abs(df) = Abs(dr) /\ ClearPath(pieces, s, t)
            [] piece_type(p) = "r" ->
                 (df = 0 \/ dr = 0) /\ ClearPath(pieces, s, t)
            [] piece_type(p) = "q" ->
                 (df = 0 \/ dr = 0 \/ Abs(df) = Abs(dr)) /\ ClearPath(pieces, s, t)

\* board.is_attacked_by(color, t)
is_attacked_by(pieces, color, t) ==
    \E s \in Squares :
        /\ pieces[s] # NoPiece
        /\ piece_color(pieces[s]) = color
        /\ Attacks(pieces, s, t)

Occupied(pieces, color) ==
    {s \in Squares : pieces[s] # NoPiece /\ piece_color(pieces[s]) = color}

\* the side `color` has its king attacked
InCheck(pieces, color) ==
    \E k \in Squares :
        /\ pieces[k] = symbol("k", color)
        /\ is_attacked_by(pieces, ~color, k)

\* the pieces after a move is made (the core of board.push): the moved piece
\* leaves its square, a pawn taking en passant removes the passed pawn, a
\* promoting pawn becomes the promotion piece
PiecesAfter(pieces, ep, m) ==
    LET p       == pieces[m.from_square]
        color   == piece_color(p)
        isEp    == piece_type(p) = "p" /\ m.to_square = ep /\ ep # NoSquare
                     /\ square_file(m.to_square) # square_file(m.from_square)
                     /\ pieces[m.to_square] = NoPiece
        capSq   == square(square_file(m.to_square), square_rank(m.from_square))
        placed  == IF m.promotion # "" THEN symbol(m.promotion, color) ELSE p
        moved   == [pieces EXCEPT ![m.from_square] = NoPiece, ![m.to_square] = placed]
    IN IF isEp THEN [moved EXCEPT ![capSq] = NoPiece] ELSE moved

\* pawn moves from s: pushes, the double step from the home rank, captures
\* (en passant included), each with the four promotions on the last rank
PawnMoves(pieces, ep, s) ==
    LET color == piece_color(pieces[s])
        dir   == IF color = WHITE THEN 1 ELSE -1
        home  == IF color = WHITE THEN 1 ELSE 6
        final == IF color = WHITE THEN 7 ELSE 0
        f     == square_file(s)
        r     == square_rank(s)
        one   == square(f, r + dir)
        two   == square(f, r + 2 * dir)
        push  == IF r + dir \in 0..7 /\ pieces[one] = NoPiece
                 THEN {one} \cup (IF r = home /\ pieces[two] = NoPiece THEN {two} ELSE {})
                 ELSE {}
        caps  == {t \in Squares :
                     /\ square_rank(t) = r + dir
                     /\ Abs(square_file(t) - f) = 1
                     /\ \/ (pieces[t] # NoPiece /\ piece_color(pieces[t]) # color)
                        \/ (t = ep /\ ep # NoSquare)}
    IN UNION {IF square_rank(t) = final
              THEN {Move(s, t, pr) : pr \in PromotionSymbols}
              ELSE {Move(s, t, "")} : t \in push \cup caps}

\* board.pseudo_legal_moves (castling is out of reach within MaxPlies)
PseudoLegalMoves(b) ==
    UNION {IF piece_type(b.pieces[s]) = "p"
           THEN PawnMoves(b.pieces, b.ep_square, s)
           ELSE {Move(s, t, "") : t \in {t \in Squares :
                     /\ Attacks(b.pieces, s, t)
                     /\ (b.pieces[t] = NoPiece \/ piece_color(b.pieces[t]) # b.turn)}}
           : s \in Occupied(b.pieces, b.turn)}

\* board.legal_moves: the pseudo-legal moves that leave the own king safe
LegalMoves(b) ==
    {m \in PseudoLegalMoves(b) :
        ~InCheck(PiecesAfter(b.pieces, b.ep_square, m), b.turn)}

\* board.push(move) for a move whose from-square holds a piece: the piece is
\* moved, a double pawn step sets the en-passant square, the turn passes and
\* the move goes on the move stack
push(b, m) ==
    LET p == b.pieces[m.from_square]
        double == piece_type(p) = "p"
                    /\ Abs(square_rank(m.to_square) - square_rank(m.from_square)) = 2
    IN [pieces     |-> PiecesAfter(b.pieces, b.ep_square, m),
        turn       |-> ~b.turn,
        ep_square  |-> IF double
                       THEN square(square_file(m.from_square),
                                   (square_rank(m.from_square) + square_rank(m.to_square)) \div 2)
                       ELSE NoSquare,
        move_stack |-> Append(b.move_stack, m)]

(***************************************************************************)
(* Inputs of the model: what is typed, where is clicked, what the engine   *)
(* may answer.                                                             *)
(***************************************************************************)
\* texts typed into the notation field (src/app.py:312): short algebraic,
\* coordinate, well-formed but illegal, with a promotion suffix, the null
\* move, unparseable, padded with blanks, blank
NotationInputs ==
    { <<"e", "4">>, <<"e", "2", "e", "4">>, <<"f", "3">>, <<"g", "4">>,
      <<"e", "5">>, <<"Q", "h", "4">>, <<"e", "2", "e", "5">>,
      <<"e", "7", "e", "8", "q">>, <<"0", "0", "0", "0">>, <<"z", "z">>,
      <<" ", "e", "4", " ">>, <<" ">> }

\* the moves the engine picks its answer from
EngineRepertoire ==
    { <<"e", "2", "e", "4">>, <<"f", "2", "f", "3">>, <<"g", "2", "g", "4">>,
      <<"e", "7", "e", "5">>, <<"d", "8", "h", "4">> }

\* the squares the user clicks on
ClickSquares == { <<"e", "2">>, <<"e", "4">>, <<"e", "7">>, <<"e", "5">> }

\* move_input.strip()
RECURSIVE strip(_)
strip(text) ==
    IF text = <<>> THEN text
    ELSE IF Head(text) = " " THEN strip(Tail(text))
    ELSE IF text[Len(text)] = " " THEN strip(SubSeq(text, 1, Len(text) - 1))
    ELSE text

\* the moves the inputs above can denote in some position
MoveRepertoire ==
    EngineRepertoire \cup { <<"e", "4", "e", "5">>, <<"e", "5", "e", "4">> }

(***************************************************************************)
(* python-chess: a move from its text.  A parse returns [ok, move]; ok     *)
(* FALSE stands for the exception the library raises.                      *)
(***************************************************************************)
Raised == [ok |-> FALSE, move |-> NoMove]
Returned(m) == [ok |-> TRUE, move |-> m]

\* chess.Move.null(): "0000"
NullMove == Move(0, 0, "")
NullTexts == { <<"-", "-">>, <<"Z", "0">>, <<"0", "0", "0", "0">>, <<"@", "@", "@", "@">> }

\* chess.Move.from_uci(text)
from_uci(text) ==
    IF text = <<"0", "0", "0", "0">> THEN Returned(NullMove)
    ELSE IF /\ Len(text) \in {4, 5}
            /\ IsSquareName(SubSeq(text, 1, 2))
            /\ IsSquareName(SubSeq(text, 3, 4))
            /\ (Len(text) = 5 => text[5] \in BlackSymbols)
            /\ SubSeq(text, 1, 2) # SubSeq(text, 3, 4)
    THEN Returned(Move(parse_square(SubSeq(text, 1, 2)),
                       parse_square(SubSeq(text, 3, 4)),
                       IF Len(text) = 5 THEN text[5] ELSE ""))
    ELSE Raised

\* answers of a process that is not held to the rules: a move no piece may
\* make, a move of the other side's piece, the null move, no move text
UncheckedRepertoire ==
    { <<"e", "2", "e", "5">>, <<"e", "7", "e", "5">>, <<"e", "2", "e", "4">>,
      <<"0", "0", "0", "0">>, <<"z", "z">> }

\* the answers above that board.push can carry out: the move text of a
\* piece that stands on the board, the null move, or no move text at all
UncheckedReplies(b) ==
    {t \in UncheckedRepertoire :
        from_uci(t).ok =>
            (from_uci(t).move = NullMove
                \/ piece_at(b, from_uci(t).move.from_square) # NoPiece)}

\* the moves of the answers above
UncheckedMoves(b) ==
    {from_uci(t).move : t \in {u \in UncheckedReplies(b) : from_uci(u).ok}}

(***************************************************************************)
(* The legal moves of the positions the inputs lead to, computed once:     *)
(* legal_moves(b) is LegalMoves(b), looked up when b is tabulated.         *)
(***************************************************************************)
InputMoves(b) == {m \in LegalMoves(b) : uci(m) \in MoveRepertoire}

Successors(boards, n) ==
    {push(bm[1], bm[2]) : bm \in
        UNION {{<<b, m>> : m \in InputMoves(b)} :
                 b \in {c \in boards : Len(c.move_stack) = n - 1}}}

Extend(boards, n) == boards \cup Successors(boards, n)

BoardsWithin[n \in 0..(MaxPlies + 1)] ==
    IF n = 0 THEN {NewBoard} ELSE Extend(BoardsWithin[n - 1], n)

\* the positions an engine that answers anything leads to
AnySuccessors(boards, n) ==
    {push(bm[1], bm[2]) : bm \in
        UNION {{<<b, m>> : m \in InputMoves(b) \cup UncheckedMoves(b)} :
                 b \in {c \in boards : Len(c.move_stack) = n - 1}}}

AnyExtend(boards, n) == boards \cup AnySuccessors(boards, n)

UncheckedBoardsWithin[n \in 0..(MaxUncheckedPlies + 1)] ==
    IF n = 0 THEN {NewBoard} ELSE AnyExtend(UncheckedBoardsWithin[n - 1], n)

\* a game that brings a white pawn to g7 with g8 empty and h8 to take:
\* 1. h4 g5 2. hxg5 h6 3. gxh6 Bg7 4. hxg7 Nf6
PromotionLine ==
    << <<"h", "2", "h", "4">>, <<"g", "7", "g", "5">>, <<"h", "4", "g", "5">>,
       <<"h", "7", "h", "6">>, <<"g", "5", "h", "6">>, <<"f", "8", "g", "7">>,
       <<"h", "6", "g", "7">>, <<"g", "8", "f", "6">> >>

\* the positions of that game
LineBoards[n \in 0..Len(PromotionLine)] ==
    IF n = 0 THEN NewBoard
    ELSE push(LineBoards[n - 1], from_uci(PromotionLine[n]).move)

\* and the positions after its pawn has promoted
PromotionBoards ==
    {LineBoards[n] : n \in 0..Len(PromotionLine)}
        \cup {push(LineBoards[Len(PromotionLine)], m) :
                 m \in {n \in LegalMoves(LineBoards[Len(PromotionLine)]) : n.promotion # ""}}

LegalTable ==
    {[board |-> b, moves |-> {m : m \in LegalMoves(b)}, check |-> InCheck(b.pieces, b.turn)]
        : b \in BoardsWithin[MaxPlies + 1] \cup UncheckedBoardsWithin[MaxUncheckedPlies + 1]
                 \cup PromotionBoards}

Entries(table, b) == {e \in table : e.board = b}

Moves(entries, b) ==
    IF entries = {} THEN LegalMoves(b) ELSE (CHOOSE e \in entries : TRUE).moves

Check(entries, b) ==
    IF entries = {} THEN InCheck(b.pieces, b.turn) ELSE (CHOOSE e \in entries : TRUE).check

\* board.legal_moves
legal_moves(b) == Moves(Entries(LegalTable, b), b)

\* board.is_check()
is_check(b) == Check(Entries(LegalTable, b), b)

(***************************************************************************)
(* python-chess: parsing move text.  A parse returns [ok, move]; ok FALSE  *)
(* stands for the exception (InvalidMoveError, IllegalMoveError,           *)
(* AmbiguousMoveError) the library raises.                                 *)
(***************************************************************************)
\* the legality test of board.parse_uci on a parsed move (the null move is
\* returned as it is)
LegalOrRaise(b, r) ==
    IF ~r.ok THEN Raised
    ELSE IF r.move = NullMove THEN r
    ELSE IF r.move \in legal_moves(b) THEN r
    ELSE Raised

\* board.parse_uci(text)
parse_uci(b, text) == LegalOrRaise(b, from_uci(text))

\* chess.SAN_REGEX:
\*   ^([NBKRQ])?([a-h])?([1-8])?[\-x]?([a-h][1-8])(=?[nbrqkNBRQK])?[\+#]?\Z
\* A way to read the text is <<piece?, file?, rank?, separator?, "="?,
\* promotion?, check?>> (1 when the part is there); the regular
\* expression takes the greediest reading that fits.
SanReadings == [1..7 -> {0, 1}]
SanPromotionChars == {"n", "b", "r", "q", "k", "N", "B", "R", "Q", "K"}

\* where the destination square starts in reading g
SanTo(g) == g[1] + g[2] + g[3] + g[4] + 1

SanFits(text, g) ==
    /\ Len(text) = SanTo(g) + 1 + g[5] + g[6] + g[7]
    /\ (g[5] = 1 => g[6] = 1)
    /\ (g[1] = 1 => text[1] \in {"N", "B", "K", "R", "Q"})
    /\ (g[2] = 1 => IsFileChar(text[g[1] + 1]))
    /\ (g[3] = 1 => IsRankChar(text[g[1] + g[2] + 1]))
    /\ (g[4] = 1 => text[g[1] + g[2] + g[3] + 1] \in {"-", "x"})
    /\ IsSquareName(SubSeq(text, SanTo(g), SanTo(g) + 1))
    /\ (g[5] = 1 => text[SanTo(g) + 2] = "=")
    /\ (g[6] = 1 => text[SanTo(g) + 2 + g[5]] \in SanPromotionChars)
    /\ (g[7] = 1 => text[SanTo(g) + 2 + g[5] + g[6]] \in {"+", "#"})

SanWeight(g) == 64 * g[1] + 32 * g[2] + 16 * g[3] + 8 * g[4] + 4 * g[6] + 2 * g[5] + g[7]

SanBest(fits) == CHOOSE g \in fits : \A h \in fits : SanWeight(h) <= SanWeight(g)

Lower(c) ==
    CASE c = "N" -> "n" [] c = "B" -> "b" [] c = "R" -> "r" [] c = "Q" -> "q"
      [] c = "K" -> "k" [] c = "P" -> "p" [] OTHER -> c

\* the from-square s agrees with what reading g of the text says of the
\* moving piece (its letter, or a pawn on the destination's file) and of
\* its file and rank
SanFrom(b, text, g, s) ==
    /\ (g[2] = 1 => FILE_NAMES[square_file(s) + 1] = text[g[1] + 1])
    /\ (g[3] = 1 => RANK_NAMES[square_rank(s) + 1] = text[g[1] + g[2] + 1])
    /\ IF g[1] = 1
       THEN b.pieces[s] = symbol(Lower(text[1]), b.turn)
       ELSE IF g[2] = 1 /\ g[3] = 1
       THEN TRUE
       ELSE /\ b.pieces[s] \in {"P", "p"}
            /\ (g[2] = 0 => FILE_NAMES[square_file(s) + 1] = text[SanTo(g)])

\* the legal moves that reading g of the text denotes
SanMoves(b, text, g) ==
    {m \in legal_moves(b) :
        /\ SanFrom(b, text, g, m.from_square)
        /\ m.to_square = parse_square(SubSeq(text, SanTo(g), SanTo(g) + 1))
        /\ m.promotion = (IF g[6] = 1 THEN Lower(text[SanTo(g) + 2 + g[5]]) ELSE "")}

\* one matching move is the answer; none is an illegal move, several an
\* ambiguous one
TheOne(matched) ==
    IF Cardinality(matched) = 1 THEN Returned(CHOOSE m \in matched : TRUE) ELSE Raised

SanRead(b, text, fits) ==
    IF fits = {}
    THEN (IF text \in NullTexts THEN Returned(NullMove) ELSE Raised)
    ELSE TheOne(SanMoves(b, text, SanBest(fits)))

\* the readings of a text, computed once for the texts of the model
SanTable ==
    {[text |-> strip(t), fits |-> {g : g \in {h \in SanReadings : SanFits(strip(t), h)}}]
        : t \in NotationInputs}

Fits(entries, text) ==
    IF entries = {} THEN {g \in SanReadings : SanFits(text, g)}
    ELSE (CHOOSE e \in entries : TRUE).fits

\* board.parse_san(text): the one legal move the text denotes
parse_san(b, text) == SanRead(b, text, Fits({e \in SanTable : e.text = text}, text))

(***************************************************************************)
(* process_move  (src/app.py:177)                                          *)
(* msg is the kind of message returned: "Movimento" (success),             *)
(* "Movimento ilegal", "Erro" (the exception's text).                      *)
(***************************************************************************)
\* src/app.py:180-186: which parser's answer is the move
Resolve(san, coord, move_input, is_uci) ==
    IF is_uci
    THEN (IF Len(move_input) = 4 THEN coord ELSE san)
    ELSE (IF san.ok THEN san ELSE coord)

\* Validate without the test of src/app.py:188: whatever parses is accepted
Validate_parsed(b, parsed) ==
    IF ~parsed.ok
    THEN [success |-> FALSE, msg |-> "Erro", move |-> NoMove]
    ELSE [success |-> TRUE, msg |-> "Movimento", move |-> parsed.move]

\* src/app.py:188-193
Validate(b, parsed) ==
    IF ~parsed.ok
    THEN [success |-> FALSE, msg |-> "Erro", move |-> NoMove]
    ELSE IF parsed.move \in legal_moves(b)
    THEN [success |-> TRUE, msg |-> "Movimento", move |-> parsed.move]
    ELSE [success |-> FALSE, msg |-> "Movimento ilegal", move |-> NoMove]

process_move(b, move_input, is_uci) ==
    Validate(b, Resolve(parse_san(b, move_input), parse_uci(b, move_input),
                        move_input, is_uci))

\* board.is_checkmate(), board.is_stalemate()
is_checkmate(b) == is_check(b) /\ legal_moves(b) = {}
is_stalemate(b) == ~is_check(b) /\ legal_moves(b) = {}

\* the piece types on a set of squares
Types(pieces, squares) == {piece_type(pieces[s]) : s \in squares}

\* the square colours (0 dark, 1 light) of the bishops
BishopShades(pieces) ==
    {(square_file(s) + square_rank(s)) % 2 : s \in {t \in Squares : pieces[t] \in {"B", "b"}}}

\* board.has_insufficient_material(color)
has_insufficient_material(b, color) ==
    IF Types(b.pieces, Occupied(b.pieces, color)) \cap {"p", "r", "q"} # {} THEN FALSE
    ELSE IF "n" \in Types(b.pieces, Occupied(b.pieces, color))
    THEN /\ Cardinality(Occupied(b.pieces, color)) <= 2
         /\ Types(b.pieces, Occupied(b.pieces, ~color)) \subseteq {"k", "q"}
    ELSE IF "b" \in Types(b.pieces, Occupied(b.pieces, color))
    THEN /\ Cardinality(BishopShades(b.pieces)) <= 1
         /\ Types(b.pieces, Occupied(b.pieces, WHITE) \cup Occupied(b.pieces, BLACK))
               \cap {"p", "n"} = {}
    ELSE TRUE

\* board.is_insufficient_material()
is_insufficient_material(b) ==
    has_insufficient_material(b, WHITE) /\ has_insufficient_material(b, BLACK)

\* board.is_game_over(): checkmate, stalemate or insufficient material (the
\* seventy-five-move and fivefold-repetition endings need far more plies
\* than MaxPlies)
is_game_over(b) ==
    is_checkmate(b) \/ is_stalemate(b) \/ is_insufficient_material(b)

(***************************************************************************)
(* pixel_to_square  (src/app.py:158)                                       *)
(***************************************************************************)
Min(a, c) == IF a < c THEN a ELSE c

\* max(0, min(7, int(v // (board_size / 8)))) for the coordinate
\* v = num / den: the quotient v / (board_size / 8) is
\* 8 * num / (den * board_size), and // takes its floor
Index(num, den, board_size) == Max(0, Min(7, (8 * num) \div (den * board_size)))

\* src/app.py:167-169 with the orientation test left out: no index is
\* mirrored
Mirror_never(idx, orientation) == idx

\* src/app.py:167-169
Mirror(idx, orientation) == IF orientation = BLACK THEN 7 - idx ELSE idx

\* pixel_to_square(xn / den, yn / den, board_size, orientation)
pixel_to_square_at(xn, yn, den, board_size, orientation) ==
    <<FILE_NAMES[Mirror(Index(xn, den, board_size), orientation) + 1],
      RANK_NAMES[8 - Mirror(Index(yn, den, board_size), orientation)]>>

\* pixel_to_square for whole pixels
pixel_to_square(px, py, board_size, orientation) ==
    pixel_to_square_at(px, py, 1, board_size, orientation)

\* the board is drawn and clicked at this size (src/app.py:290, 358)
BOARD_SIZE == 650

\* the pixel coordinates the user enters: inside the columns of files d and
\* e (file e when the board is flipped), inside the rows of ranks 7, 5, 4, 2
ClickXs == {283, 364}
ClickYs == {121, 283, 364, 526}

(***************************************************************************)
(* The session: st.session_state, the widgets, the cached engine           *)
(***************************************************************************)
\* None for a text (selected_square, the engine's answer)
None == <<>>
\* None for the engine handle
NoEngine == "None"

STOCKFISH_PATH == "./stockfish"
\* the path the warning of src/app.py:272 proposes; no engine is installed there
OTHER_PATH == "/usr/games/stockfish"
\* what is typed into "Caminho do Motor"  (src/app.py:236)
Paths == {STOCKFISH_PATH, OTHER_PATH}

ModeSandbox == "Sandbox (Livre - Jogar pelos dois)"
ModeHumanWhite == "Humano vs Stockfish (Jogar de Brancas)"
ModeHumanBlack == "Stockfish vs Humano (Jogar de Pretas)"
GameModes == {ModeSandbox, ModeHumanWhite, ModeHumanBlack}

DEFAULT_DEPTH == 18
DEFAULT_SKILL == 20

\* the dict {"depth": depth, "skill": skill}; {} is the empty dict
Params(depth, skill) == {<<"depth", depth>>, <<"skill", skill>>}

VARIABLES
    session_state,   \* st.session_state: board, game_log, stockfish, engine_params,
                     \* orientation, selected_square, valid_moves_from_square, engine_loaded
    widgets,         \* the widgets' values: game_mode, engine_path, depth, skill
    engine_cache,    \* st.cache_resource of load_engine_process: path -> "absent", "OK", error
    engine,          \* the Stockfish process: alive, threads, hash, depth, skill, and
                     \* the commands it received during the last action
    last             \* what the last action was and what it showed

vars == <<session_state, widgets, engine_cache, engine, last>>

\* init_state()  (src/app.py:90)
init_state ==
    [board |-> NewBoard,
     game_log |-> <<>>,
     stockfish |-> NoEngine,
     engine_params |-> {},
     orientation |-> WHITE,
     selected_square |-> None,
     valid_moves_from_square |-> {},
     engine_loaded |-> FALSE]

\* the widgets' defaults (src/app.py:206, 236-238)
DefaultWidgets ==
    [game_mode |-> ModeSandbox, engine_path |-> STOCKFISH_PATH,
     depth |-> DEFAULT_DEPTH, skill |-> DEFAULT_SKILL]

\* os.path.isfile(path) and os.access(path, os.X_OK): the script only runs
\* past src/app.py:45-62 while ./stockfish is there and executable
FileOk(path) == path = STOCKFISH_PATH

\* load_engine_process(path) under st.cache_resource  (src/app.py:110):
\* the first call for a path decides, later calls repeat its answer
load_engine_process(cache, eng, path, ctor_ok) ==
    IF cache[path] # "absent"
    THEN [cache |-> cache, eng |-> eng, ok |-> cache[path] = "OK"]
    ELSE IF ~FileOk(path)
    THEN [cache |-> [cache EXCEPT ![path] = "Arquivo nao encontrado"], eng |-> eng, ok |-> FALSE]
    ELSE IF ~ctor_ok
    THEN [cache |-> [cache EXCEPT ![path] = "Erro desconhecido"], eng |-> eng, ok |-> FALSE]
    ELSE [cache |-> [cache EXCEPT ![path] = "OK"],
          eng |-> [alive |-> TRUE, threads |-> 3, hash |-> 128,
                   depth |-> DEFAULT_DEPTH, skill |-> DEFAULT_SKILL,
                   commands |-> eng.commands \o <<"Threads", "Hash", "Ponder">>],
          ok |-> TRUE]

\* update_engine_dynamic without the comparison of src/app.py:148: every
\* call sends the two parameters
update_engine_always(ss, eng, depth, skill, sync) ==
    [ss |-> [ss EXCEPT !.engine_params = Params(depth, skill)],
     eng |-> [eng EXCEPT !.depth = depth, !.skill = skill,
                         !.commands = @ \o <<"set_depth", "set_skill_level">>]]

\* update_engine_dynamic(sf_instance, depth, skill)  (src/app.py:142);
\* sync says how the two engine calls end: "ok", "fail_depth" (set_depth
\* raises), "fail_skill" (set_skill_level raises); a call that raises is
\* followed by "raise" in the engine's commands
update_engine_dynamic(ss, eng, depth, skill, sync) ==
    IF ss.engine_params # Params(depth, skill)
    THEN CASE sync = "ok" ->
                [ss |-> [ss EXCEPT !.engine_params = Params(depth, skill)],
                 eng |-> [eng EXCEPT !.depth = depth, !.skill = skill,
                                     !.commands = @ \o <<"set_depth", "set_skill_level">>]]
           [] sync = "fail_depth" ->
                [ss |-> ss,
                 eng |-> [eng EXCEPT !.commands = @ \o <<"set_depth", "raise">>]]
           [] sync = "fail_skill" ->
                [ss |-> ss,
                 eng |-> [eng EXCEPT !.depth = depth,
                                     !.commands = @ \o <<"set_depth", "set_skill_level", "raise">>]]
    ELSE [ss |-> ss, eng |-> eng]

(***************************************************************************)
(* main(): one script run  (src/app.py:197)                                *)
(*                                                                         *)
(* A run takes the session st = [ss, cache, eng], the widgets w, the event *)
(* ev that started it (a pressed button with its inputs, or none) and the  *)
(* outcome ch of what the run does not decide itself (the engine's         *)
(* construction, its answers).  It returns the session after the run,      *)
(* whether st.rerun() ended it, the messages it showed, the answers the    *)
(* engine gave to its requests and the engine moves it put on the board.   *)
(***************************************************************************)
NoEvent == [kind |-> "none", text |-> <<>>, px |-> 0, py |-> 0]

RunResult(st, rerun, msgs, replies, engine_moves) ==
    [st |-> st, rerun |-> rerun, msgs |-> msgs,
     replies |-> replies, engine_moves |-> engine_moves]

\* st.error / st.success / st.warning: one more message on the page
Show(st, msgs, msg) == RunResult(st, FALSE, msgs \cup {msg}, <<>>, 0)

\* "Reiniciar" without src/app.py:223-225: only the board is reset
ResetButton_board_only(st) ==
    RunResult([st EXCEPT !.ss.board = NewBoard], TRUE, {}, <<>>, 0)

\* the sidebar's "Reiniciar" button  (src/app.py:221-226)
ResetButton(st) ==
    RunResult([st EXCEPT !.ss.board = NewBoard,
                         !.ss.game_log = <<>>,
                         !.ss.selected_square = None,
                         !.ss.valid_moves_from_square = {}],
              TRUE, {}, <<>>, 0)

\* the sidebar's "Virar" button  (src/app.py:228-230)
FlipButton(st) ==
    RunResult([st EXCEPT !.ss.orientation =
                             IF st.ss.orientation = WHITE THEN BLACK ELSE WHITE],
              TRUE, {}, <<>>, 0)

\* src/app.py:254-276 once load_engine_process has answered ld
EngineLoaded(st, w, ld, sync) ==
    IF ld.ok
    THEN [st |-> [ss |-> [update_engine_dynamic(st.ss, ld.eng, w.depth, w.skill, sync).ss
                            EXCEPT !.stockfish = w.engine_path, !.engine_loaded = TRUE],
                  cache |-> ld.cache,
                  eng |-> update_engine_dynamic(st.ss, ld.eng, w.depth, w.skill, sync).eng],
          msgs |-> {}]
    ELSE [st |-> [st EXCEPT !.cache = ld.cache],
          msgs |-> {"Erro ao carregar o Stockfish"}]

\* the engine's initialisation  (src/app.py:251-276)
EngineInit(st, w, ch) ==
    EngineLoaded(st, w, load_engine_process(st.cache, st.eng, w.engine_path, ch.ctor_ok),
                 ch.sync)

\* src/app.py:322-329 once process_move has answered res
NotationMove(st, msgs, res) ==
    IF res.success
    THEN RunResult([st EXCEPT !.ss.board = push(st.ss.board, res.move),
                              !.ss.game_log = Append(st.ss.game_log, uci(res.move))],
                   TRUE, msgs \cup {res.msg}, <<>>, 0)
    ELSE Show(st, msgs, res.msg)

\* src/app.py:320-331 for the stripped text
NotationText(st, msgs, text) ==
    IF text # <<>>
    THEN NotationMove(st, msgs, process_move(st.ss.board, text, FALSE))
    ELSE Show(st, msgs, "Digite um movimento")

\* the notation tab's button  (src/app.py:319-331)
NotationButton(st, ev, msgs) == NotationText(st, msgs, strip(ev.text))

\* the list of src/app.py:365 with str(m)[2:4] for str(m)[:2]: the moves
\* onto the square
moves_to(b, name) ==
    {uci(m) : m \in {n \in legal_moves(b) : SubSeq(uci(n), 3, 4) = name}}

\* [str(m) for m in board.legal_moves if str(m)[:2] == square_name]
\* (src/app.py:365), as the set of its entries
moves_from(b, name) ==
    {uci(m) : m \in {n \in legal_moves(b) : SubSeq(uci(n), 1, 2) = name}}

\* piece and piece.color == board.turn  (src/app.py:363)
own_piece(b, piece) == piece # NoPiece /\ piece_color(piece) = b.turn

\* src/app.py:361-370: the first pick
SelectPiece(st, msgs, name) ==
    IF own_piece(st.ss.board, piece_at(st.ss.board, parse_square(name)))
    THEN RunResult([st EXCEPT !.ss.selected_square = name,
                              !.ss.valid_moves_from_square = moves_from(st.ss.board, name)],
                   TRUE, msgs \cup {"Peca selecionada"}, <<>>, 0)
    ELSE Show(st, msgs, "Nenhuma peca")

\* src/app.py:377-387 without line 386: a failed second pick keeps the
\* selection
CoordsMove_keep(st, msgs, move_uci, res) ==
    IF res.success
    THEN RunResult([st EXCEPT !.ss.board = push(st.ss.board, res.move),
                              !.ss.game_log = Append(st.ss.game_log, move_uci),
                              !.ss.selected_square = None,
                              !.ss.valid_moves_from_square = {}],
                   TRUE, msgs \cup {res.msg}, <<>>, 0)
    ELSE RunResult(st, FALSE, msgs \cup {res.msg}, <<>>, 0)

\* src/app.py:377-387 once process_move has answered res
CoordsMove(st, msgs, move_uci, res) ==
    IF res.success
    THEN RunResult([st EXCEPT !.ss.board = push(st.ss.board, res.move),
                              !.ss.game_log = Append(st.ss.game_log, move_uci),
                              !.ss.selected_square = None,
                              !.ss.valid_moves_from_square = {}],
                   TRUE, msgs \cup {res.msg}, <<>>, 0)
    ELSE RunResult([st EXCEPT !.ss.selected_square = None],
                   TRUE, msgs \cup {res.msg}, <<>>, 0)

\* src/app.py:372-376: the second pick
MovePiece(st, msgs, move_uci) ==
    CoordsMove(st, msgs, move_uci, process_move(st.ss.board, move_uci, TRUE))

\* src/app.py:358-387 for the square picked
CoordsSquare(st, msgs, name) ==
    IF st.ss.selected_square = None
    THEN SelectPiece(st, msgs, name)
    ELSE MovePiece(st, msgs, st.ss.selected_square \o name)

\* the coordinates tab's button  (src/app.py:357-387)
CoordsButton(st, ev, msgs) ==
    CoordsSquare(st, msgs, pixel_to_square(ev.px, ev.py, BOARD_SIZE, st.ss.orientation))

\* the two tabs  (src/app.py:301-387)
Tabs(st, ev, msgs) ==
    CASE ev.kind = "notation" -> NotationButton(st, ev, msgs)
      [] ev.kind = "coords" -> CoordsButton(st, ev, msgs)
      [] OTHER -> RunResult(st, FALSE, msgs, <<>>, 0)

\* ai_should_play with the select box's own option texts in the two
\* comparisons of src/app.py:406, 408: the mode starts the engine's turn
ai_should_play_by_mode(game_mode, turn, pressed) ==
    \/ (game_mode = ModeHumanWhite /\ turn = BLACK)
    \/ (game_mode = ModeHumanBlack /\ turn = WHITE)
    \/ pressed

\* ai_should_play with no mode in the comparison of src/app.py:406: Black's
\* turn starts the engine in every mode
ai_should_play_black(game_mode, turn, pressed) ==
    \/ turn = BLACK
    \/ (game_mode = "Stockfish vs Humano" /\ turn = WHITE)
    \/ pressed

\* ai_should_play  (src/app.py:405-412)
ai_should_play(game_mode, turn, pressed) ==
    \/ (game_mode = "Humano vs Stockfish" /\ turn = BLACK)
    \/ (game_mode = "Stockfish vs Humano" /\ turn = WHITE)
    \/ pressed

\* the condition of src/app.py:414 without "not board.is_game_over()"
engine_turn_any_position(ss, w, pressed) ==
    /\ ai_should_play(w.game_mode, ss.board.turn, pressed)
    /\ ss.stockfish # NoEngine

\* the condition of src/app.py:414
engine_turn(ss, w, pressed) ==
    /\ ai_should_play(w.game_mode, ss.board.turn, pressed)
    /\ ss.stockfish # NoEngine
    /\ ~is_game_over(ss.board)

\* src/app.py:420-428 without line 422: the engine's answer goes on the log
\* alone
EngineMove_log_only(st, msgs, best_move_uci) ==
    RunResult([st EXCEPT !.ss.game_log = Append(st.ss.game_log, best_move_uci),
                         !.ss.selected_square = None,
                         !.ss.valid_moves_from_square = {}],
              TRUE, msgs \cup {"Stockfish"}, <<best_move_uci>>, 1)

\* src/app.py:420-428: the engine's answer goes on the board and the log
EngineMove(st, msgs, best_move_uci) ==
    RunResult([st EXCEPT !.ss.board = push(st.ss.board, from_uci(best_move_uci).move),
                         !.ss.game_log = Append(st.ss.game_log, best_move_uci),
                         !.ss.selected_square = None,
                         !.ss.valid_moves_from_square = {}],
              TRUE, msgs \cup {"Stockfish"}, <<best_move_uci>>, 1)

\* the engine turn with "st.session_state.game_log = []" in the except
\* clause of src/app.py:429
AiLogic_error_clears_log(st, w, pressed, msgs, ch) ==
    IF engine_turn(st.ss, w, pressed)
    THEN IF ch.reply = <<"raise">> \/ (ch.reply # None /\ ~from_uci(ch.reply).ok)
         THEN RunResult([st EXCEPT !.ss.game_log = <<>>], FALSE,
                        msgs \cup {"Erro ao executar Stockfish"}, <<ch.reply>>, 0)
         ELSE IF ch.reply = None
         THEN RunResult(st, FALSE, msgs, <<ch.reply>>, 0)
         ELSE EngineMove(st, msgs, ch.reply)
    ELSE RunResult(st, FALSE, msgs, <<>>, 0)

\* the engine turn  (src/app.py:404-430): set_fen_position or
\* get_best_move_time raises (<<"raise">>), or chess.Move.from_uci does, and
\* the except clause reports it; the engine has no move (None); or its
\* answer goes on the board
AiLogic(st, w, pressed, msgs, ch) ==
    IF engine_turn(st.ss, w, pressed)
    THEN IF ch.reply = <<"raise">> \/ (ch.reply # None /\ ~from_uci(ch.reply).ok)
         THEN RunResult(st, FALSE, msgs \cup {"Erro ao executar Stockfish"}, <<ch.reply>>, 0)
         ELSE IF ch.reply = None
         THEN RunResult(st, FALSE, msgs, <<ch.reply>>, 0)
         ELSE EngineMove(st, msgs, ch.reply)
    ELSE RunResult(st, FALSE, msgs, <<>>, 0)

\* the game's status  (src/app.py:435-442)
status(b) ==
    IF is_checkmate(b) THEN {"Xeque-mate"}
    ELSE IF is_stalemate(b) THEN {"Empate por Afogamento"}
    ELSE IF is_insufficient_material(b) THEN {"Empate por Material Insuficiente"}
    ELSE IF is_check(b) THEN {"XEQUE"}
    ELSE {}

\* the history's status metric  (src/app.py:447, 467-468)
metric(ss) ==
    IF ss.game_log = <<>> THEN {}
    ELSE IF is_game_over(ss.board) THEN {"Status: Fim"}
    ELSE {"Status: Jogando"}

\* the status panel and the history  (src/app.py:435-468)
Hud(r) ==
    IF r.rerun THEN r
    ELSE [r EXCEPT !.msgs = @ \cup status(r.st.ss.board) \cup metric(r.st.ss)]

\* the information panel  (src/app.py:390-468): reached when no button of
\* the tabs ended the run in st.rerun()
Panel(r, w, pressed, ch) ==
    IF r.rerun THEN r ELSE Hud(AiLogic(r.st, w, pressed, r.msgs, ch))

\* src/app.py:278-468
Page(ei, w, ev, ch) == Panel(Tabs(ei.st, ev, ei.msgs), w, ev.kind = "ai", ch)

\* main()
Main(st, w, ev, ch) ==
    IF ev.kind = "reset" THEN ResetButton(st)
    ELSE IF ev.kind = "flip" THEN FlipButton(st)
    ELSE Page(EngineInit(st, w, ch), w, ev, ch)

(***************************************************************************)
(* What a run does not decide: whether the Stockfish constructor succeeds, *)
(* how the two parameter calls end, what the engine answers.               *)
(***************************************************************************)
\* the engine starts and takes its parameters
CtorOutcomes == {TRUE}
SyncOutcomes == {"ok"}

\* the constructor may raise (src/app.py:130-139), a parameter call may
\* raise (src/app.py:153)
CtorFaults == BOOLEAN
SyncFaults == {"ok", "fail_depth", "fail_skill"}

\* stockfish.get_best_move_time(1000) after set_fen_position(board.fen()):
\* a legal move of the position, None, or an exception (<<"raise">>)
EngineReplies(b) ==
    {<<"raise">>, None}
        \cup {t \in EngineRepertoire : from_uci(t).move \in legal_moves(b)}

\* the surroundings of a session: the sound engine, the engine whose
\* start and parameter calls may fail, the engine that answers anything
Sound == [ctor |-> CtorOutcomes, sync |-> SyncOutcomes, unchecked |-> FALSE]
Faulty == [ctor |-> CtorFaults, sync |-> SyncFaults, unchecked |-> FALSE]
Unchecked == [ctor |-> CtorOutcomes, sync |-> SyncOutcomes, unchecked |-> TRUE]

Choices(env, st, w, ev) ==
    [ctor_ok : IF st.cache[w.engine_path] = "absent" /\ FileOk(w.engine_path)
               THEN env.ctor ELSE {TRUE},
     sync : IF st.cache[w.engine_path] \in {"absent", "OK"}
                 /\ st.ss.engine_params # Params(w.depth, w.skill)
            THEN env.sync ELSE {"ok"},
     reply : IF ai_should_play(w.game_mode, st.ss.board.turn, ev.kind = "ai")
             THEN (IF env.unchecked THEN UncheckedReplies(st.ss.board)
                   ELSE EngineReplies(st.ss.board))
             ELSE {None}]

\* a run followed by the runs its st.rerun() starts
ThenRun(r, r2) ==
    [st |-> r2.st, rerun |-> r2.rerun, msgs |-> r.msgs \cup r2.msgs,
     replies |-> r.replies \o r2.replies,
     engine_moves |-> r.engine_moves + r2.engine_moves]

\* the script runs one user action causes: the run with the event, and,
\* while a run ends in st.rerun(), a further run without one
RECURSIVE Runs(_, _, _, _, _)
After(env, r, w, fuel) ==
    IF r.rerun /\ fuel > 0
    THEN {ThenRun(r, r2) : r2 \in Runs(env, r.st, w, NoEvent, fuel - 1)}
    ELSE {r}

Runs(env, st, w, ev, fuel) ==
    UNION {After(env, Main(st, w, ev, ch), w, fuel) : ch \in Choices(env, st, w, ev)}

\* the session before an action: the engine's commands are counted anew
Session ==
    [ss |-> session_state, cache |-> engine_cache,
     eng |-> [engine EXCEPT !.commands = <<>>]]

Shown(name, input, r) ==
    [event |-> name, input |-> input, msgs |-> r.msgs,
     replies |-> r.replies, engine_moves |-> r.engine_moves]

\* one user action in the surroundings env, with games of at most plies
\* moves: the widgets as they are now, the event, and the runs
DoIn(env, plies, name, input, w, ev) ==
    \E r \in Runs(env, Session, w, ev, MaxReruns) :
        /\ ~r.rerun
        /\ Len(r.st.ss.board.move_stack) <= plies
        /\ session_state' = r.st.ss
        /\ widgets' = w
        /\ engine_cache' = r.st.cache
        /\ engine' = r.st.eng
        /\ last' = Shown(name, input, r)

\* one user action with the sound engine
Do(name, input, w, ev) == DoIn(Sound, MaxPlies, name, input, w, ev)

\* before the first run: nothing cached, no engine process
EmptyCache == [path \in Paths |-> "absent"]
NoProcess ==
    [alive |-> FALSE, threads |-> 0, hash |-> 0, depth |-> 0, skill |-> 0,
     commands |-> <<>>]

\* the session after its first run of the script
FirstRun(env) ==
    \E r \in Runs(env,
                  [ss |-> init_state, cache |-> EmptyCache, eng |-> NoProcess],
                  DefaultWidgets, NoEvent, MaxReruns) :
        /\ session_state = r.st.ss
        /\ widgets = DefaultWidgets
        /\ engine_cache = r.st.cache
        /\ engine = r.st.eng
        /\ last = Shown("start", None, r)

(***************************************************************************)
(* The session starts with one run of the script.                          *)
(***************************************************************************)
Init == FirstRun(Sound)

(***************************************************************************)
(* The user's actions.                                                     *)
(***************************************************************************)
\* the game mode is chosen in the select box  (src/app.py:206)
SelectGameMode ==
    \E m \in GameModes \ {widgets.game_mode} :
        Do("mode", None, [widgets EXCEPT !.game_mode = m], NoEvent)

\* "Reiniciar"  (src/app.py:221)
PressReiniciar ==
    Do("reset", None, widgets, [NoEvent EXCEPT !.kind = "reset"])

\* "Virar"  (src/app.py:228)
PressVirar ==
    Do("flip", None, widgets, [NoEvent EXCEPT !.kind = "flip"])

\* "Mover" with a text in the notation field  (src/app.py:319)
PressMover ==
    \E text \in NotationInputs :
        Do("notation", None, widgets, [NoEvent EXCEPT !.kind = "notation", !.text = text])

\* "Processar" with pixel coordinates in the two number fields  (src/app.py:357)
PressProcessar ==
    \E px \in ClickXs, py \in ClickYs :
        /\ pixel_to_square(px, py, BOARD_SIZE, session_state.orientation) \in ClickSquares
        /\ Do("coords", pixel_to_square(px, py, BOARD_SIZE, session_state.orientation),
              widgets, [NoEvent EXCEPT !.kind = "coords", !.px = px, !.py = py])

\* "Lance Sugerido (IA)", enabled once the engine has loaded  (src/app.py:411)
PressLanceSugerido ==
    /\ session_state.engine_loaded
    /\ Do("ai", None, widgets, [NoEvent EXCEPT !.kind = "ai"])

Next ==
    \/ SelectGameMode
    \/ PressReiniciar
    \/ PressVirar
    \/ PressMover
    \/ PressProcessar
    \/ PressLanceSugerido

Spec == Init /\ [][Next]_vars

(***************************************************************************)
(* The engine's configuration: the sliders and the path are moved, the     *)
(* constructor and the parameter calls may fail.  The game is kept to the  *)
(* engine's own moves.                                                     *)
(***************************************************************************)
\* positions of the "Profundidade" slider (10..30) and of the "Habilidade"
\* slider (0..20)  (src/app.py:237-238)
Depths == {10, DEFAULT_DEPTH}
Skills == {0, DEFAULT_SKILL}

InitConfig == FirstRun(Faulty)

DoConfig(name, w, ev) == DoIn(Faulty, MaxConfigPlies, name, None, w, ev)

\* the depth slider is moved  (src/app.py:237)
MoveDepthSlider ==
    \E d \in Depths \ {widgets.depth} :
        DoConfig("depth", [widgets EXCEPT !.depth = d], NoEvent)

\* the skill slider is moved  (src/app.py:238)
MoveSkillSlider ==
    \E k \in Skills \ {widgets.skill} :
        DoConfig("skill", [widgets EXCEPT !.skill = k], NoEvent)

\* another path is typed into "Caminho do Motor"  (src/app.py:236)
TypeEnginePath ==
    \E path \in Paths \ {widgets.engine_path} :
        DoConfig("path", [widgets EXCEPT !.engine_path = path], NoEvent)

\* "Virar" while the configuration stays as it is
ConfigVirar == DoConfig("flip", widgets, [NoEvent EXCEPT !.kind = "flip"])

\* "Reiniciar" while the configuration stays as it is
ConfigReiniciar == DoConfig("reset", widgets, [NoEvent EXCEPT !.kind = "reset"])

\* "Lance Sugerido (IA)", enabled once the engine has loaded
ConfigLanceSugerido ==
    /\ session_state.engine_loaded
    /\ DoConfig("ai", widgets, [NoEvent EXCEPT !.kind = "ai"])

NextConfig ==
    \/ MoveDepthSlider
    \/ MoveSkillSlider
    \/ TypeEnginePath
    \/ ConfigVirar
    \/ ConfigReiniciar
    \/ ConfigLanceSugerido

SpecConfig == InitConfig /\ [][NextConfig]_vars

(***************************************************************************)
(* The engine that answers anything: its move text is put on the board as  *)
(* src/app.py:421-422 does, whatever it says.                              *)
(***************************************************************************)
InitUnchecked == FirstRun(Unchecked)

\* "Lance Sugerido (IA)"
UncheckedLanceSugerido ==
    /\ session_state.engine_loaded
    /\ DoIn(Unchecked, MaxUncheckedPlies, "ai", None, widgets,
            [NoEvent EXCEPT !.kind = "ai"])

\* "Mover" with a text in the notation field
UncheckedMover ==
    \E text \in NotationInputs :
        DoIn(Unchecked, MaxUncheckedPlies, "notation", None, widgets,
             [NoEvent EXCEPT !.kind = "notation", !.text = text])

\* "Processar" with pixel coordinates in the two number fields
UncheckedProcessar ==
    \E px \in ClickXs, py \in ClickYs :
        /\ pixel_to_square(px, py, BOARD_SIZE, session_state.orientation) \in ClickSquares
        /\ DoIn(Unchecked, MaxUncheckedPlies, "coords",
                pixel_to_square(px, py, BOARD_SIZE, session_state.orientation), widgets,
                [NoEvent EXCEPT !.kind = "coords", !.px = px, !.py = py])

\* "Reiniciar"
UncheckedReiniciar ==
    DoIn(Unchecked, MaxUncheckedPlies, "reset", None, widgets,
         [NoEvent EXCEPT !.kind = "reset"])

NextUnchecked ==
    \/ UncheckedLanceSugerido
    \/ UncheckedMover
    \/ UncheckedProcessar
    \/ UncheckedReiniciar

SpecUnchecked == InitUnchecked /\ [][NextUnchecked]_vars

(***************************************************************************)
(* A game up to a promotion: the moves of PromotionLine are typed one by   *)
(* one, the squares around the pawn are picked.                            *)
(***************************************************************************)
PromotionPlies == Len(PromotionLine) + 1

\* the squares picked: the pawn's square and the two it can promote on
PromotionSquares == { <<"g", "7">>, <<"g", "8">>, <<"h", "8">> }

\* pixel coordinates inside the columns of files g and h and the rows of
\* ranks 8 and 7, for both orientations
PromotionXs == {528, 609, 122, 41}
PromotionYs == {40, 121, 610, 529}

\* "Mover" with the game's next move in the notation field
PromotionMover ==
    /\ Len(session_state.game_log) < Len(PromotionLine)
    /\ DoIn(Sound, PromotionPlies, "notation", None, widgets,
            [NoEvent EXCEPT !.kind = "notation",
                            !.text = PromotionLine[Len(session_state.game_log) + 1]])

\* "Processar" with pixel coordinates in the two number fields
PromotionProcessar ==
    \E px \in PromotionXs, py \in PromotionYs :
        /\ pixel_to_square(px, py, BOARD_SIZE, session_state.orientation) \in PromotionSquares
        /\ DoIn(Sound, PromotionPlies, "coords",
                pixel_to_square(px, py, BOARD_SIZE, session_state.orientation), widgets,
                [NoEvent EXCEPT !.kind = "coords", !.px = px, !.py = py])

\* "Virar"
PromotionVirar ==
    DoIn(Sound, PromotionPlies, "flip", None, widgets, [NoEvent EXCEPT !.kind = "flip"])

NextPromotion ==
    \/ PromotionMover
    \/ PromotionProcessar
    \/ PromotionVirar

SpecPromotion == Init /\ [][NextPromotion]_vars

(***************************************************************************)
(* pixel_to_square as a function: a call is drawn (coordinates in          *)
(* sixteenths of a pixel, board size, orientation) and answered.           *)
(***************************************************************************)
\* board_size values: the app's own 650, a multiple of 16, one that is no
\* multiple of 8, and the smallest board with whole-pixel cells
BoardSizes == {BOARD_SIZE, 640, 100, 8}

\* coordinates from 0 to board_size, in sixteenths: the two edges, the
\* whole pixels on both sides of every cell border, every cell's centre
Coordinates(board_size) ==
    {0, 16 * board_size}
        \cup {16 * ((c * board_size) \div 8) : c \in 1..7}
        \cup {16 * (((c * board_size) \div 8) + 1) : c \in 1..7}
        \cup {(2 * c + 1) * board_size : c \in 0..7}

\* nothing has run yet
Idle ==
    /\ session_state = init_state
    /\ widgets = DefaultWidgets
    /\ engine_cache = EmptyCache
    /\ engine = NoProcess

PixelCalls ==
    UNION {[x : Coordinates(b), y : Coordinates(b), board_size : {b},
            orientation : {WHITE, BLACK}] : b \in BoardSizes}

InitPixel ==
    /\ Idle
    /\ \E call \in PixelCalls :
          last = [event |-> "call", input |-> call, square |-> None]

\* the call is made
CallPixelToSquare ==
    /\ last.event = "call"
    /\ last' = [last EXCEPT !.event = "pixel_to_square",
                            !.square = pixel_to_square_at(last.input.x, last.input.y, 16,
                                                          last.input.board_size,
                                                          last.input.orientation)]
    /\ UNCHANGED <<session_state, widgets, engine_cache, engine>>

NextPixel == CallPixelToSquare

SpecPixel == InitPixel /\ [][NextPixel]_vars

(***************************************************************************)
(* The history display as a function of game_log  (src/app.py:447-465)     *)
(***************************************************************************)
\* str(n) for n >= 0
DIGITS == <<"0", "1", "2", "3", "4", "5", "6", "7", "8", "9">>
RECURSIVE str(_)
str(n) == IF n < 10 THEN <<DIGITS[n + 1]>> ELSE str(n \div 10) \o <<DIGITS[(n % 10) + 1]>>

\* src/app.py:453-457 with the test i % 2 == 1: the round's number goes
\* before Black's move
PgnEntry_black_first(i, move) ==
    IF i % 2 = 1
    THEN str((i \div 2) + 1) \o <<".", " ">> \o move \o <<" ">>
    ELSE move \o <<" ", " ", "\n">>

\* src/app.py:453-457: what entry i (from 0) of the log adds to pgn_text,
\* f"{(i // 2) + 1}. {move} " or f"{move}  \n"
PgnEntry(i, move) ==
    IF i % 2 = 0
    THEN str((i \div 2) + 1) \o <<".", " ">> \o move \o <<" ">>
    ELSE move \o <<" ", " ", "\n">>

\* pgn_text after the loop of src/app.py:452-457
RECURSIVE pgn_text(_)
pgn_text(game_log) ==
    IF game_log = <<>> THEN <<>>
    ELSE pgn_text(SubSeq(game_log, 1, Len(game_log) - 1))
             \o PgnEntry(Len(game_log) - 1, game_log[Len(game_log)])

\* the history block  (src/app.py:447-465): nothing for an empty log, else
\* the text area and the metrics "Movimentos" and "Rodadas"
Historico(game_log) ==
    IF game_log = <<>> THEN None
    ELSE [pgn_text |-> pgn_text(game_log),
          Movimentos |-> Len(game_log),
          Rodadas |-> (Len(game_log) + 1) \div 2]

\* the logs displayed: every log of up to MaxHistoryPlies entries over
\* three move texts, and the beginnings of a game of 21 plies
HistoryMoves ==
    << <<"e", "2", "e", "4">>, <<"e", "7", "e", "5">>, <<"g", "1", "f", "3">> >>

LongGame == [i \in 1..21 |-> HistoryMoves[((i - 1) % 3) + 1]]

HistoryLogs ==
    UNION {[1..n -> {HistoryMoves[j] : j \in 1..3}] : n \in 0..MaxHistoryPlies}
        \cup {SubSeq(LongGame, 1, n) : n \in 0..Len(LongGame)}

InitHistory ==
    /\ Idle
    /\ \E log \in HistoryLogs :
          last = [event |-> "log", input |-> log, shown |-> None]

\* the history block is drawn
DrawHistorico ==
    /\ last.event = "log"
    /\ last' = [last EXCEPT !.event = "history", !.shown = Historico(last.input)]
    /\ UNCHANGED <<session_state, widgets, engine_cache, engine>>

NextHistory == DrawHistorico

SpecHistory == InitHistory /\ [][NextHistory]_vars

(***************************************************************************)
(* Two sessions of the app in one server process.  Each has its own        *)
(* st.session_state and widgets; st.cache_resource hands both the same     *)
(* engine for the same path.  Here session_state and widgets are indexed   *)
(* by the session, and last names the session that acted.                  *)
(***************************************************************************)
Sessions == {"A", "B"}

InitShared ==
    /\ session_state = [s \in Sessions |-> init_state]
    /\ widgets = [s \in Sessions |-> DefaultWidgets]
    /\ engine_cache = EmptyCache
    /\ engine = NoProcess
    /\ last = [session |-> "none", event |-> "start", input |-> None, msgs |-> {},
               replies |-> <<>>, engine_moves |-> 0]

\* one action of session s: its runs of the script on its own state and on
\* the shared cache and engine
DoShared(s, name, w, ev) ==
    \E r \in Runs(Sound,
                  [ss |-> session_state[s], cache |-> engine_cache,
                   eng |-> [engine EXCEPT !.commands = <<>>]],
                  w, ev, MaxReruns) :
        /\ ~r.rerun
        /\ Len(r.st.ss.board.move_stack) <= MaxSharedPlies
        /\ session_state' = [session_state EXCEPT ![s] = r.st.ss]
        /\ widgets' = [widgets EXCEPT ![s] = w]
        /\ engine_cache' = r.st.cache
        /\ engine' = r.st.eng
        /\ last' = [session |-> s, event |-> name, input |-> None, msgs |-> r.msgs,
                    replies |-> r.replies, engine_moves |-> r.engine_moves]

\* the page is opened or drawn again
SharedRun ==
    \E s \in Sessions : DoShared(s, "run", widgets[s], NoEvent)

\* the depth slider of a session whose page is drawn is moved
SharedDepthSlider ==
    \E s \in Sessions, d \in Depths :
        /\ session_state[s].engine_params # {}
        /\ d # widgets[s].depth
        /\ DoShared(s, "depth", [widgets[s] EXCEPT !.depth = d], NoEvent)

\* the skill slider of a session whose page is drawn is moved
SharedSkillSlider ==
    \E s \in Sessions, k \in Skills :
        /\ session_state[s].engine_params # {}
        /\ k # widgets[s].skill
        /\ DoShared(s, "skill", [widgets[s] EXCEPT !.skill = k], NoEvent)

\* a session's "Lance Sugerido (IA)"
SharedLanceSugerido ==
    \E s \in Sessions :
        /\ session_state[s].engine_loaded
        /\ DoShared(s, "ai", widgets[s], [NoEvent EXCEPT !.kind = "ai"])

NextShared ==
    \/ SharedRun
    \/ SharedDepthSlider
    \/ SharedSkillSlider
    \/ SharedLanceSugerido

SpecShared == InitShared /\ [][NextShared]_vars
(***************************************************************************)
(* Properties                                                              *)
(***************************************************************************)
\* the colour to move and the parts of the session the properties speak of
Turn == session_state.board.turn
Selected == session_state.selected_square
Candidates == session_state.valid_moves_from_square
Loaded == session_state.stockfish # NoEngine

\* the destinations of the legal moves of b from the square named s
Destinations(b, s) ==
    {square_name(m.to_square) : m \in {n \in legal_moves(b) : n.from_square = parse_square(s)}}

\* the destinations held in a list of moves
Held(moves) == {SubSeq(u, 3, 4) : u \in moves}

\* the side the mode gives to the engine has the move
EngineToMove ==
    \/ (widgets.game_mode = ModeHumanWhite /\ Turn = BLACK)
    \/ (widgets.game_mode = ModeHumanBlack /\ Turn = WHITE)

\* what the page shows of a finished game
GameOverReports ==
    {"Xeque-mate", "Empate por Afogamento", "Empate por Material Insuficiente", "Status: Fim"}

\* a failed resolution's messages
ResolutionErrors == {"Erro", "Movimento ilegal"}

\* the engine's answer was a move
IsMoveText(reply) == from_uci(reply).ok

\* C1: in HumanAsWhite the engine supplies the move on Black's turn, in
\* HumanAsBlack on White's turn: whenever the session rests with the engine's
\* side to move, the engine loaded and the game not over, the action that led
\* there asked the engine for a move (which it may not have given).
C1_EngineAskedOnItsTurn ==
    (EngineToMove /\ Loaded /\ ~is_game_over(session_state.board))
        => last.replies # <<>>

C1_HumanMovedEngineSilent ==
    /\ widgets.game_mode = ModeHumanWhite
    /\ Loaded
    /\ last.event = "coords"
    /\ last.input = <<"e", "4">>
    /\ session_state.game_log = << <<"e", "2", "e", "4">> >>
    /\ Turn = BLACK
    /\ last.replies = <<>>
    /\ last.engine_moves = 0

\* C2: from a position that is game over no action asks the engine, no
\* engine move goes on the board or the log, and the override is answered
\* by the page's game-over report; and no action asks the engine once the
\* position it made is game over.
C2_NoEngineWhenGameOver ==
    [][/\ is_game_over(session_state.board) =>
            /\ last'.replies = <<>>
            /\ last'.engine_moves = 0
            /\ session_state'.board \in {session_state.board, NewBoard}
            /\ session_state'.game_log \in {session_state.game_log, <<>>}
            /\ last'.event = "ai" =>
                  /\ last'.msgs \cap GameOverReports # {}
                  /\ session_state'.board = session_state.board
                  /\ session_state'.game_log = session_state.game_log
       /\ is_game_over(session_state'.board) =>
            Len(last'.replies) = last'.engine_moves]_vars

C2_OverrideWhenGameOver ==
    /\ is_game_over(session_state.board)
    /\ last.event = "ai"
    /\ last.replies = <<>>
    /\ "Xeque-mate" \in last.msgs

\* C3: in every mode the override asks the engine exactly once when the
\* game is not over; when the engine answers with a move, that move and no
\* other goes on the board, its text is the one new log entry and the turn
\* passes once; when it gives none, board and log stay as they are.
C3_OverrideOneEngineMove ==
    [][(last'.event = "ai" /\ ~is_game_over(session_state.board)) =>
          /\ Len(last'.replies) = 1
          /\ IF IsMoveText(last'.replies[1])
             THEN /\ last'.engine_moves = 1
                  /\ session_state'.board =
                        push(session_state.board, from_uci(last'.replies[1]).move)
                  /\ session_state'.board.turn # Turn
                  /\ Len(session_state'.board.move_stack)
                        = Len(session_state.board.move_stack) + 1
                  /\ session_state'.game_log
                        = Append(session_state.game_log, last'.replies[1])
             ELSE /\ last'.engine_moves = 0
                  /\ session_state'.board = session_state.board
                  /\ session_state'.game_log = session_state.game_log]_vars

C3_OverrideMoved ==
    /\ last.event = "ai"
    /\ last.engine_moves = 1
    /\ widgets.game_mode = ModeHumanWhite
    /\ Turn = BLACK
    /\ Len(session_state.game_log) = 1

\* C4: in Sandbox the engine is asked, and an engine move made, only in an
\* action in which the override was pressed.
C4_SandboxEngineOnlyByOverride ==
    (widgets.game_mode = ModeSandbox /\ (last.replies # <<>> \/ last.engine_moves > 0))
        => last.event = "ai"

C4_SandboxBlackToMoveEngineSilent ==
    /\ widgets.game_mode = ModeSandbox
    /\ Loaded
    /\ Turn = BLACK
    /\ last.event = "coords"
    /\ "Movimento" \in last.msgs
    /\ last.replies = <<>>

\* the texts process_move is given: what is typed, as typed and stripped,
\* and the pairs of clicked squares
ResolveTexts ==
    NotationInputs \cup {strip(t) : t \in NotationInputs}
        \cup {s \o t : s \in ClickSquares, t \in ClickSquares}

\* C5: process_move answers success only with a legal move of the position
\* it is given, for every text and both kinds of input; a resolution that
\* fails leaves board and log as they are (and, in the notation tab, the
\* selection), and a resolution that succeeds changes the board only by the
\* caller's push of one legal move.
C5_ResolveOnlyLegal ==
    /\ [](\A text \in ResolveTexts, is_uci \in BOOLEAN :
             process_move(session_state.board, text, is_uci).success =>
                 /\ process_move(session_state.board, text, is_uci).move
                        \in legal_moves(session_state.board)
                 /\ process_move(session_state.board, text, is_uci).msg = "Movimento")
    /\ [][(last'.event = "notation" \/ (last'.event = "coords" /\ Selected # None)) =>
            IF "Movimento" \in last'.msgs
            THEN \E m \in legal_moves(session_state.board) :
                    /\ session_state'.board = push(session_state.board, m)
                    /\ session_state'.game_log = Append(session_state.game_log, uci(m))
            ELSE /\ session_state'.board = session_state.board
                 /\ session_state'.game_log = session_state.game_log
                 /\ last'.event = "notation" =>
                       /\ session_state'.selected_square = Selected
                       /\ session_state'.valid_moves_from_square = Candidates]_vars

C5_IllegalTextRefused ==
    /\ last.event = "notation"
    /\ "Movimento ilegal" \in last.msgs
    /\ session_state.game_log # <<>>

\* C6: a second pick always leaves no square selected; when the pair of
\* squares is a legal move, that move goes on the board and the pair is the
\* one new log entry; when it is not, board and log stay as they are and
\* the error is shown.
C6_SecondPickEndsSelection ==
    [][(last'.event = "coords" /\ Selected # None) =>
          /\ session_state'.selected_square = None
          /\ IF \E m \in legal_moves(session_state.board) : uci(m) = Selected \o last'.input
             THEN /\ session_state'.board =
                        push(session_state.board,
                             CHOOSE m \in legal_moves(session_state.board) :
                                 uci(m) = Selected \o last'.input)
                  /\ session_state'.game_log
                        = Append(session_state.game_log, Selected \o last'.input)
             ELSE /\ session_state'.board = session_state.board
                  /\ session_state'.game_log = session_state.game_log
                  /\ last'.msgs \cap ResolutionErrors # {}]_vars

C6_FailedSecondPick ==
    /\ last.event = "coords"
    /\ last.msgs \cap ResolutionErrors # {}
    /\ Selected = None
    /\ session_state.game_log # <<>>

\* C7: a first pick leaves board and log as they are; on a piece of the
\* side to move it selects the square with exactly the destinations of the
\* position's legal moves from it, on any other square it selects nothing
\* and reports that no piece is there.
C7_FirstPickSelects ==
    [][(last'.event = "coords" /\ Selected = None) =>
          /\ session_state'.board = session_state.board
          /\ session_state'.game_log = session_state.game_log
          /\ IF own_piece(session_state.board,
                          piece_at(session_state.board, parse_square(last'.input)))
             THEN /\ session_state'.selected_square = last'.input
                  /\ Held(session_state'.valid_moves_from_square)
                        = Destinations(session_state.board, last'.input)
                  /\ \A u \in session_state'.valid_moves_from_square :
                        SubSeq(u, 1, 2) = last'.input
             ELSE /\ session_state'.selected_square = None
                  /\ session_state'.valid_moves_from_square = Candidates
                  /\ "Nenhuma peca" \in last'.msgs]_vars

C7_PieceSelected ==
    /\ last.event = "coords"
    /\ "Peca selecionada" \in last.msgs
    /\ Selected = last.input
    /\ Candidates # {}
    /\ session_state.game_log # <<>>

\* C8: a first pick selects only a piece of the side the mode lets the human
\* move: in HumanAsWhite never a black piece, in HumanAsBlack never a white
\* one.
C8_OnlyHumanSideSelected ==
    (last.event = "coords" /\ "Peca selecionada" \in last.msgs) =>
        /\ widgets.game_mode = ModeHumanWhite =>
              piece_color(piece_at(session_state.board, parse_square(Selected))) = WHITE
        /\ widgets.game_mode = ModeHumanBlack =>
              piece_color(piece_at(session_state.board, parse_square(Selected))) = BLACK

C8_EngineSidePieceSelected ==
    /\ widgets.game_mode = ModeHumanWhite
    /\ Turn = BLACK
    /\ last.event = "coords"
    /\ "Peca selecionada" \in last.msgs
    /\ Selected = <<"e", "7">>
    /\ piece_at(session_state.board, parse_square(Selected)) = "p"

\* C9: while a square is selected, the destinations held are those of the
\* current position's legal moves from it.
C9_CandidatesAreLive ==
    Selected # None => Held(Candidates) = Destinations(session_state.board, Selected)

C9_StaleCandidatesAfterNotation ==
    /\ last.event = "notation"
    /\ "Movimento" \in last.msgs
    /\ Selected = <<"e", "2">>
    /\ Held(Candidates) = { <<"e", "3">>, <<"e", "4">> }
    /\ Destinations(session_state.board, Selected) = {}

\* C10: "Reiniciar" leaves the starting position, an empty log and no
\* selection, all in the one step; and the board is never at the start of a
\* game with moves still in the log.
C10_ResetAsAUnit ==
    /\ last.event = "reset" =>
          /\ session_state.board = NewBoard
          /\ session_state.game_log = <<>>
          /\ Selected = None
          /\ Candidates = {}
    /\ session_state.board = NewBoard => session_state.game_log = <<>>

C10_AfterReset ==
    /\ last.event = "reset"
    /\ session_state.board = NewBoard
    /\ Selected = None

(***************************************************************************)
(* The engine's configuration                                              *)
(***************************************************************************)
Elements(seq) == {seq[i] : i \in 1..Len(seq)}

\* the controls' {depth, skill}
Desired == Params(widgets.depth, widgets.skill)

\* the messages about the engine
EngineErrors == {"Erro ao carregar o Stockfish", "Erro ao executar Stockfish"}

\* C11: the parameter commands of an action depend on the last applied
\* snapshot and the controls' {depth, skill} alone.  When the two are equal
\* the engine receives no command and keeps its depth and skill; when they
\* differ and the engine is loaded it receives set_depth first; whatever is
\* sent is a depth or skill call, never a thread or hash option; and the
\* snapshot changes only to the controls' values, right after a set_depth,
\* set_skill_level pair that did not raise.
C11_SyncByDifferenceOnly ==
    [][/\ session_state.engine_params = Desired' =>
            /\ engine'.commands = <<>>
            /\ engine'.depth = engine.depth
            /\ engine'.skill = engine.skill
            /\ session_state'.engine_params = session_state.engine_params
       /\ (session_state.engine_params # Desired' /\ engine_cache'[widgets'.engine_path] = "OK") =>
            /\ Len(engine'.commands) >= 2
            /\ engine'.commands[1] = "set_depth"
       /\ Elements(engine'.commands) \subseteq {"set_depth", "set_skill_level", "raise"}
       /\ session_state'.engine_params # session_state.engine_params =>
            /\ session_state'.engine_params = Desired'
            /\ Len(engine'.commands) >= 2
            /\ SubSeq(engine'.commands, Len(engine'.commands) - 1, Len(engine'.commands))
                 = <<"set_depth", "set_skill_level">>
            /\ engine'.depth = widgets'.depth
            /\ engine'.skill = widgets'.skill
            /\ engine'.threads = 3
            /\ engine'.hash = 128]_vars

C11_OnlyDepthChanged ==
    /\ last.event = "depth"
    /\ engine.commands = <<"set_depth", "set_skill_level">>
    /\ engine.threads = 3
    /\ engine.hash = 128
    /\ engine.depth = 10
    /\ engine.skill = DEFAULT_SKILL
    /\ session_state.engine_params = Params(10, DEFAULT_SKILL)

\* C12: an action in which a parameter call raised shows a message about
\* the engine.
C12_SyncFailureReported ==
    "raise" \in Elements(engine.commands) => last.msgs \cap EngineErrors # {}

C12_SilentSyncFailure ==
    /\ last.event = "depth"
    /\ widgets.depth = 10
    /\ engine.commands = <<"set_depth", "set_skill_level", "raise">>
    /\ session_state.engine_params = Params(DEFAULT_DEPTH, DEFAULT_SKILL)
    /\ last.msgs \cap EngineErrors = {}

\* C13: while loading the engine fails for the configured path, no action
\* asks the engine for a move or puts an engine move on the board.
C13_NoEnginePlayWhenLoadFailed ==
    engine_cache[widgets.engine_path] # "OK" =>
        (last.replies = <<>> /\ last.engine_moves = 0)

C13_EngineMoveAfterFailedLoad ==
    /\ widgets.engine_path = OTHER_PATH
    /\ engine_cache[OTHER_PATH] # "OK"
    /\ "Erro ao carregar o Stockfish" \in last.msgs
    /\ last.event = "ai"
    /\ last.engine_moves = 1
    /\ Len(session_state.game_log) = 1

(***************************************************************************)
(* The engine's requests, the log and the move stack                       *)
(***************************************************************************)
FailedReplies == {<<"raise">>, None}

\* board.move_stack as the texts of its moves
StackTexts(b) == [i \in 1..Len(b.move_stack) |-> uci(b.move_stack[i])]

\* the position that the moves of a stack lead to from the start
RECURSIVE Replay(_)
Replay(stack) ==
    IF stack = <<>> THEN NewBoard
    ELSE push(Replay(SubSeq(stack, 1, Len(stack) - 1)), stack[Len(stack)])

\* C14: an action whose engine request failed (the request raised, or the
\* engine had no move) leaves the board and the log as they were, shows an
\* exception as a message and ends as any other action does; and over
\* every action the board's move stack and the log grow by the same number
\* of entries.
C14_FailedRequestChangesNothing ==
    [][/\ (last'.replies # <<>> /\ last'.replies[Len(last'.replies)] \in FailedReplies) =>
            /\ last'.engine_moves = 0
            /\ Len(last'.replies) = 1
            /\ session_state'.board = session_state.board
            /\ session_state'.game_log = session_state.game_log
            /\ session_state'.engine_loaded = session_state.engine_loaded
            /\ session_state'.stockfish = session_state.stockfish
            /\ (last'.replies[1] = <<"raise">> =>
                    "Erro ao executar Stockfish" \in last'.msgs)
       /\ Len(session_state'.game_log) - Len(session_state'.board.move_stack)
            = Len(session_state.game_log) - Len(session_state.board.move_stack)]_vars

C14_RequestRaised ==
    /\ last.event = "ai"
    /\ last.replies = << <<"raise">> >>
    /\ "Erro ao executar Stockfish" \in last.msgs
    /\ Len(session_state.game_log) = 2
    /\ StackTexts(session_state.board) = session_state.game_log

\* C18: the log is the list of the coordinate texts of the board's move
\* stack, entry by entry, and the position is the one those moves lead to
\* from the start; an action leaves the log as it is, appends one entry to
\* it, or, being a new game, empties it.
C18_LogAndStackInLockstep ==
    /\ [](/\ session_state.game_log = StackTexts(session_state.board)
          /\ session_state.board = Replay(session_state.board.move_stack))
    /\ [][\/ session_state'.game_log = session_state.game_log
          \/ /\ Len(session_state'.game_log) = Len(session_state.game_log) + 1
             /\ SubSeq(session_state'.game_log, 1, Len(session_state.game_log))
                  = session_state.game_log
             /\ session_state'.board.move_stack
                  = Append(session_state.board.move_stack,
                           session_state'.board.move_stack[Len(session_state'.game_log)])
             /\ last'.event \in {"notation", "coords", "ai"}
          \/ /\ last'.event = "reset"
             /\ session_state'.game_log = <<>>
             /\ session_state'.board.move_stack = <<>>]_vars

C18_MixedGame ==
    /\ last.event = "ai"
    /\ last.engine_moves = 1
    /\ session_state.game_log
         = << <<"e", "2", "e", "4">>, <<"e", "7", "e", "5">>, <<"g", "2", "g", "4">> >>
    /\ StackTexts(session_state.board) = session_state.game_log

\* C19: every move an action puts on the board is a legal move of the
\* position it is put on, whether it was typed, picked or answered by the
\* engine.
C19_OnlyLegalMovesApplied ==
    [][Len(session_state'.board.move_stack) = Len(session_state.board.move_stack) + 1 =>
          session_state'.board.move_stack[Len(session_state'.board.move_stack)]
              \in legal_moves(session_state.board)]_vars

C19_IllegalEngineMoveApplied ==
    /\ last.event = "ai"
    /\ last.replies = << <<"e", "2", "e", "5">> >>
    /\ session_state.game_log = << <<"e", "2", "e", "5">> >>
    /\ piece_at(session_state.board, parse_square(<<"e", "5">>)) = "P"
    /\ piece_at(session_state.board, parse_square(<<"e", "2">>)) = NoPiece
    /\ session_state.board.turn = BLACK

(***************************************************************************)
(* Promotion by two picks                                                  *)
(***************************************************************************)
\* the queen promotion from the selected square to the square picked
QueenPromotion(s, t) == Move(parse_square(s), parse_square(t), "q")

\* C15: a second pick on a square where the selected pawn may promote
\* applies the queen promotion and ends the selection.
C15_PairPromotesToQueen ==
    [][(/\ last'.event = "coords"
        /\ Selected # None
        /\ QueenPromotion(Selected, last'.input) \in legal_moves(session_state.board)) =>
           /\ session_state'.board
                = push(session_state.board, QueenPromotion(Selected, last'.input))
           /\ Len(session_state'.game_log) = Len(session_state.game_log) + 1
           /\ session_state'.selected_square = None]_vars

C15_PromotionPairRefused ==
    /\ last.event = "coords"
    /\ last.input = <<"g", "8">>
    /\ "Erro" \in last.msgs
    /\ Selected = None
    /\ session_state.game_log = PromotionLine
    /\ piece_at(session_state.board, parse_square(<<"g", "7">>)) = "P"
    /\ QueenPromotion(<<"g", "7">>, <<"g", "8">>) \in legal_moves(session_state.board)
    /\ <<"g", "7", "g", "8", "q">> \in Candidates

(***************************************************************************)
(* pixel_to_square                                                         *)
(***************************************************************************)
\* the column (from the left) and the row (from the top) in which square s
\* is drawn
Column(s, orientation) ==
    IF orientation = BLACK THEN 7 - square_file(s) ELSE square_file(s)
Row(s, orientation) ==
    IF orientation = BLACK THEN square_rank(s) ELSE 7 - square_rank(s)

\* the centre of a cell, in sixteenths of a pixel: (c + 1/2) * board_size / 8
Centre(c, board_size) == (2 * c + 1) * board_size

\* C16: pixel_to_square answers every coordinate from 0 to the board size,
\* the edges included, with the name of a square, namely the square drawn
\* in the cell the point lies in (the last cell for the far edge); so the
\* centre of the cell of s is answered with s, in both orientations.
C16_PixelToSquareTotalAndInverse ==
    last.event = "pixel_to_square" =>
        /\ IsSquareName(last.square)
        /\ \A s \in Squares :
              (/\ Column(s, last.input.orientation)
                    = Min(7, last.input.x \div (2 * last.input.board_size))
               /\ Row(s, last.input.orientation)
                    = Min(7, last.input.y \div (2 * last.input.board_size)))
                  => last.square = square_name(s)
        /\ \A s \in Squares :
              (/\ last.input.x = Centre(Column(s, last.input.orientation), last.input.board_size)
               /\ last.input.y = Centre(Row(s, last.input.orientation), last.input.board_size))
                  => last.square = square_name(s)

C16_CentreOfG7BlackAtBottom ==
    /\ last.event = "pixel_to_square"
    /\ last.input.board_size = BOARD_SIZE
    /\ last.input.orientation = BLACK
    /\ last.input.x = Centre(1, BOARD_SIZE)
    /\ last.input.y = Centre(6, BOARD_SIZE)
    /\ last.square = <<"g", "7">>

(***************************************************************************)
(* The history display                                                     *)
(***************************************************************************)
\* the pieces of a text between the occurrences of a separator
RECURSIVE Split(_, _)
Split(text, sep) ==
    IF \A i \in 1..Len(text) : text[i] # sep THEN <<text>>
    ELSE LET k == CHOOSE i \in 1..Len(text) :
                      text[i] = sep /\ \A j \in 1..(i - 1) : text[j] # sep
         IN <<SubSeq(text, 1, k - 1)>> \o Split(SubSeq(text, k + 1, Len(text)), sep)

NonEmpty(pieces) == SelectSeq(pieces, LAMBDA piece : piece # <<>>)

\* the words of every line that has any
DisplayedLines(text) ==
    NonEmpty([i \in 1..Len(Split(text, "\n")) |-> NonEmpty(Split(Split(text, "\n")[i], " "))])

Absent == <<"absent">>

\* a displayed line read as a round: its number, White's move, Black's move
ReadRound(words) ==
    [number |-> words[1],
     white |-> IF Len(words) >= 2 THEN words[2] ELSE Absent,
     black |-> IF Len(words) >= 3 THEN words[3] ELSE Absent]

\* the round that plies 2k - 2 and 2k - 1 (from 0) of the log make
RoundOf(log, k) ==
    [number |-> str(k) \o <<".">>,
     white |-> log[2 * k - 1],
     black |-> IF 2 * k <= Len(log) THEN log[2 * k] ELSE Absent]

\* C17: the text displayed for a log reads back, line by line, as the
\* rounds of the log: line k carries the number k, the entry at ply index
\* 2k - 2 as White's move and the entry at ply index 2k - 1, when there is
\* one, as Black's; "Rodadas" is the number of those lines, the number of
\* plies divided by two and rounded up, and "Movimentos" the number of
\* plies.
C17_RoundsOfTheLog ==
    (last.event = "history" /\ last.input # <<>>) =>
        /\ Len(DisplayedLines(last.shown.pgn_text)) = (Len(last.input) + 1) \div 2
        /\ \A k \in 1..Len(DisplayedLines(last.shown.pgn_text)) :
              /\ Len(DisplayedLines(last.shown.pgn_text)[k]) <= 3
              /\ ReadRound(DisplayedLines(last.shown.pgn_text)[k]) = RoundOf(last.input, k)
        /\ last.shown.Rodadas = Len(DisplayedLines(last.shown.pgn_text))
        /\ 2 * last.shown.Rodadas \in {Len(last.input), Len(last.input) + 1}
        /\ last.shown.Movimentos = Len(last.input)

C17_ThreePlies ==
    /\ last.event = "history"
    /\ last.input = HistoryMoves
    /\ last.shown.pgn_text
         = <<"1", ".", " ", "e", "2", "e", "4", " ", "e", "7", "e", "5", " ", " ", "\n",
             "2", ".", " ", "g", "1", "f", "3", " ">>
    /\ last.shown.Rodadas = 2
    /\ ReadRound(DisplayedLines(last.shown.pgn_text)[2])
         = [number |-> <<"2", ".">>, white |-> <<"g", "1", "f", "3">>, black |-> Absent]

(***************************************************************************)
(* Two sessions, one engine                                                *)
(***************************************************************************)
\* C20: when a session has asked the engine for a move and its snapshot
\* equals its controls' {depth, skill}, the engine has that depth and that
\* skill.
C20_SnapshotIsTheEnginesConfiguration ==
    (last.event = "ai" /\ last.replies # <<>>) =>
        (session_state[last.session].engine_params
             = Params(widgets[last.session].depth, widgets[last.session].skill)
           => /\ engine.depth = widgets[last.session].depth
              /\ engine.skill = widgets[last.session].skill)

C20_RequestUnderAnothersDepth ==
    /\ last.event = "ai"
    /\ last.session = "A"
    /\ last.engine_moves = 1
    /\ widgets["A"].depth = DEFAULT_DEPTH
    /\ session_state["A"].engine_params = Params(DEFAULT_DEPTH, DEFAULT_SKILL)
    /\ widgets["B"].depth = 10
    /\ session_state["B"].engine_params = Params(10, DEFAULT_SKILL)
    /\ engine.depth = 10
    /\ engine.commands = <<>>
====
